---- MODULE Spec2Model ----
(***************************************************************************)
(* Model of aleph/model/document.py: the Document, DocumentPage and        *)
(* DocumentRecord persistence models and Document's helper methods, over a *)
(* relational store of four tables (document, document_page,               *)
(* document_record, reference) reached through one database session.       *)
(*                                                                         *)
(* Python None / SQL NULL is the empty tuple, a set value v is <<v>>.      *)
(***************************************************************************)
EXTENDS Integers, Sequences, FiniteSets, TLC

VARIABLES
    obj,        \* the Python Document objects: [id, state, type, content_hash, foreign_id, meta]
    documents,  \* table document: the ids of its rows
    pages,      \* table document_page, rows in heap (insertion) order
    records,    \* table document_record, rows in heap (insertion) order
    refs,       \* table reference, rows in heap (insertion) order
    seqs,       \* the tables' primary-key sequences: last id handed out
    pc,         \* position inside a running Document.delete(): [o, at]
    last,       \* the last call made: [op, o, raised, n]
    batches,    \* the lists handed to bulk_insert_mappings by the last insert_records
    gen,        \* the text_parts() generator: [o, at, loaded, pos, out], out what it yielded
    tids        \* DocumentRecord.tid evaluations: the triples and the hash inputs

vars == <<obj, documents, pages, records, refs, seqs, pc, last, batches, gen, tids>>

\* ------------------------------------------------------------------ bounds
MaxPages == 1
MaxRecords == 1
MaxInserted == 3
MaxRefs == 2
MaxItems == 3
MaxChunk == 2
MaxSheet == 1
MaxNumber == 2
MaxTextPages == 2
MaxTextRecords == 2
MaxTid == 10

\* ------------------------------------------------------------------ values
None == <<>>
Some(v) == <<v>>

TYPE_TEXT == "text"
TYPE_TABULAR == "tabular"
TYPE_OTHER == "other"
Types == {TYPE_TEXT, TYPE_TABULAR, TYPE_OTHER}

DefaultChunkSize == 1000

\* Two Document objects: a call has its own document and another one.
Objs == {1, 2}
Origins == {"x", "y"}
Hashes == {"h1", "h2"}

\* The payloads of tabular rows: JSON objects.
DataA == [name |-> "a"]
DataB == [name |-> "b"]
DataBlank == [name |-> ""]

Idle == [o |-> 0, at |-> 0]

Range(s) == {s[i] : i \in 1..Len(s)}

\* ------------------------------------------------------------------ rows
DocumentPage(id, number, text, document_id) ==
    [id |-> id, number |-> number, text |-> text, document_id |-> document_id]

DocumentRecord(id, sheet, row_id, data, document_id) ==
    [id |-> id, sheet |-> sheet, row_id |-> row_id, data |-> data,
     document_id |-> document_id]

Reference(id, document_id, origin) ==
    [id |-> id, document_id |-> document_id, origin |-> origin]

\* db.session.refresh(self) raises InvalidRequestError unless self is
\* persistent in the session: it was never added to one, or its row was
\* deleted.
RefreshRaises(o) == obj[o].state # "persistent"

\* ------------------------------------------------------------------ queries
\* Query.filter(DocumentPage.document_id == self.id).delete(): the rows that stay.
\* (== None compiles to IS NULL, so a None id selects the rows with no document.)
\* Faulty variant: the filter compares the page's own id with self.id.
PagesAfterDelete_by_page_id(rows, id) ==
    SelectSeq(rows, LAMBDA r : Some(r.id) # id)

PagesAfterDelete(rows, id) ==
    SelectSeq(rows, LAMBDA r : r.document_id # id)

RecordsAfterDelete(rows, id) ==
    SelectSeq(rows, LAMBDA r : r.document_id # id)

\* filter(Reference.document_id == self.id), and filter(Reference.origin == origin)
\* when origin is not None.
\* Faulty variant: the origin filter is left out.
ReferencesAfterDelete_any_origin(rows, id, origin) ==
    SelectSeq(rows, LAMBDA r : r.document_id # id)

ReferencesAfterDelete(rows, id, origin) ==
    SelectSeq(rows, LAMBDA r : ~(r.document_id = id
                                 /\ (origin # None => r.origin = origin[1])))

\* What is recorded of a call: the method, the object, whether it raised, its
\* origin argument, and how many rows of each table it removed.
NoRows == [pages |-> 0, records |-> 0, refs |-> 0]
Called(op, o, raised, arg, removed) ==
    [op |-> op, o |-> o, raised |-> raised, arg |-> arg, removed |-> removed]

\* ------------------------------------------------------------------ rows added by callers
\* A DocumentPage is constructed for a stored document and added to the session.
AddPage(o, number, text) ==
    /\ pc = Idle
    /\ obj[o].state = "persistent"
    /\ pages' = Append(pages, DocumentPage(seqs.page + 1, number, text, obj[o].id))
    /\ seqs' = [seqs EXCEPT !.page = @ + 1]
    /\ last' = Called("add_page", o, FALSE, None, NoRows)
    /\ UNCHANGED <<obj, documents, records, refs, pc, batches, gen, tids>>

\* A Reference from a stored document, with its origin.
AddReference(o, origin) ==
    /\ pc = Idle
    /\ obj[o].state = "persistent"
    /\ seqs.reference < MaxRefs
    /\ refs' = Append(refs, Reference(seqs.reference + 1, obj[o].id, origin))
    /\ seqs' = [seqs EXCEPT !.reference = @ + 1]
    /\ last' = Called("add_reference", o, FALSE, None, NoRows)
    /\ UNCHANGED <<obj, documents, pages, records, pc, batches, gen, tids>>

\* ------------------------------------------------------------------ delete helpers
delete_pages(o) ==
    /\ pc = Idle
    /\ pages' = PagesAfterDelete(pages, obj[o].id)
    /\ last' = Called("delete_pages", o, RefreshRaises(o), None,
                    [NoRows EXCEPT !.pages = Len(pages) - Len(pages')])
    /\ UNCHANGED <<obj, documents, records, refs, seqs, pc, batches, gen, tids>>

delete_records(o) ==
    /\ pc = Idle
    /\ records' = RecordsAfterDelete(records, obj[o].id)
    /\ last' = Called("delete_records", o, RefreshRaises(o), None,
                    [NoRows EXCEPT !.records = Len(records) - Len(records')])
    /\ UNCHANGED <<obj, documents, pages, refs, seqs, pc, batches, gen, tids>>

delete_references(o, origin) ==
    /\ pc = Idle
    /\ refs' = ReferencesAfterDelete(refs, obj[o].id, origin)
    /\ last' = Called("delete_references", o, RefreshRaises(o), origin,
                    [NoRows EXCEPT !.refs = Len(refs) - Len(refs')])
    /\ UNCHANGED <<obj, documents, pages, records, seqs, pc, batches, gen, tids>>

\* ------------------------------------------------------------------ delete
\* The statements of Document.delete(), in the order they are written.
\* Faulty variant: the document is deleted before its rows.
delete_body_session_first ==
    <<"session_delete", "delete_references", "delete_records", "delete_pages">>

delete_body ==
    <<"delete_references", "delete_records", "delete_pages", "session_delete">>

\* Document.delete() is entered: no statement has run yet.
delete(o) ==
    /\ pc = Idle
    /\ pc' = [o |-> o, at |-> 1]
    /\ last' = Called("delete", o, FALSE, None, NoRows)
    /\ UNCHANGED <<obj, documents, pages, records, refs, seqs, batches, gen, tids>>

\* db.session.delete(self): InvalidRequestError for an object that is not
\* persistent; otherwise the document row goes, and with it (cascade='all,
\* delete-orphan' on the pages and records backrefs) its pages and records.
session_delete(o) ==
    IF obj[o].state # "persistent"
    THEN /\ last' = [last EXCEPT !.raised = TRUE]
         /\ UNCHANGED <<obj, documents, pages, records, refs>>
    ELSE /\ documents' = documents \ {obj[o].id[1]}
         /\ obj' = [obj EXCEPT ![o].state = "deleted"]
         /\ pages' = PagesAfterDelete(pages, obj[o].id)
         /\ records' = RecordsAfterDelete(records, obj[o].id)
         /\ last' = [last EXCEPT !.removed.pages = @ + Len(pages) - Len(pages'),
                                  !.removed.records = @ + Len(records) - Len(records')]
         /\ UNCHANGED refs

\* The statement of delete() at position pc.at runs; an exception ends the call.
delete_statement ==
    /\ pc # Idle
    /\ LET o == pc.o
           stmt == delete_body[pc.at]
       IN /\ CASE stmt = "delete_references" ->
                    /\ refs' = ReferencesAfterDelete(refs, obj[o].id, None)
                    /\ last' = [last EXCEPT !.raised = RefreshRaises(o),
                                             !.removed.refs = @ + Len(refs) - Len(refs')]
                    /\ UNCHANGED <<obj, documents, pages, records>>
                [] stmt = "delete_records" ->
                    /\ records' = RecordsAfterDelete(records, obj[o].id)
                    /\ last' = [last EXCEPT !.raised = RefreshRaises(o),
                                             !.removed.records = @ + Len(records) - Len(records')]
                    /\ UNCHANGED <<obj, documents, pages, refs>>
                [] stmt = "delete_pages" ->
                    /\ pages' = PagesAfterDelete(pages, obj[o].id)
                    /\ last' = [last EXCEPT !.raised = RefreshRaises(o),
                                             !.removed.pages = @ + Len(pages) - Len(pages')]
                    /\ UNCHANGED <<obj, documents, records, refs>>
                [] stmt = "session_delete" ->
                    session_delete(o)
          /\ pc' = IF last'.raised \/ pc.at = Len(delete_body)
                   THEN Idle
                   ELSE [pc EXCEPT !.at = @ + 1]
    /\ UNCHANGED <<seqs, batches, gen, tids>>

\* ------------------------------------------------------------------ insert_records
\* The mapping appended to the chunk for the item at 0-based position i.
Mapping(id, sheet, i, data) ==
    [document_id |-> id, row_id |-> i, sheet |-> sheet, data |-> data]

\* The for loop of insert_records from the item at 1-based position k on:
\* st.chunk is the chunk being filled, st.issued the lists already handed to
\* bulk_insert_mappings.
RECURSIVE insert_loop(_, _, _, _, _, _)
insert_loop(id, sheet, iterable, chunk_size, k, st) ==
    IF k > Len(iterable)
    THEN st
    ELSE LET chunk == Append(st.chunk, Mapping(id, sheet, k - 1, iterable[k]))
         IN IF Len(chunk) >= chunk_size
            THEN insert_loop(id, sheet, iterable, chunk_size, k + 1,
                             [chunk |-> <<>>, issued |-> Append(st.issued, chunk)])
            ELSE insert_loop(id, sheet, iterable, chunk_size, k + 1,
                             [chunk |-> chunk, issued |-> st.issued])

\* Every list insert_records hands to bulk_insert_mappings, in order: those of
\* the loop, then the rest of the chunk if any is left.
\* Faulty variant: the chunk left after the loop is not inserted.
insert_batches_no_rest(id, sheet, iterable, chunk_size) ==
    insert_loop(id, sheet, iterable, chunk_size, 1,
                [chunk |-> <<>>, issued |-> <<>>]).issued

insert_batches(id, sheet, iterable, chunk_size) ==
    LET st == insert_loop(id, sheet, iterable, chunk_size, 1,
                          [chunk |-> <<>>, issued |-> <<>>])
    IN IF Len(st.chunk) # 0 THEN Append(st.issued, st.chunk) ELSE st.issued

\* db.session.bulk_insert_mappings(DocumentRecord, chunk): one row per mapping,
\* in order, each with the next id of the table's sequence.
bulk_insert_mappings(rows, next, chunk) ==
    rows \o [j \in 1..Len(chunk) |->
                DocumentRecord(next + j, chunk[j].sheet, chunk[j].row_id,
                               chunk[j].data, chunk[j].document_id)]

RECURSIVE bulk_insert_all(_, _, _)
bulk_insert_all(rows, next, bs) ==
    IF bs = <<>>
    THEN rows
    ELSE bulk_insert_all(bulk_insert_mappings(rows, next, Head(bs)),
                         next + Len(Head(bs)), Tail(bs))

insert_records(o, sheet, iterable, chunk_size) ==
    /\ pc = Idle
    /\ LET bs == insert_batches(obj[o].id, sheet, iterable, chunk_size)
       IN /\ batches' = bs
          /\ records' = bulk_insert_all(records, seqs.record, bs)
          /\ seqs' = [seqs EXCEPT !.record = Len(records') - Len(records) + @]
    /\ last' = Called("insert_records", o, FALSE,
                    [sheet |-> sheet, iterable |-> iterable, chunk_size |-> chunk_size],
                    NoRows)
    /\ UNCHANGED <<obj, documents, pages, refs, pc, gen, tids>>

\* ------------------------------------------------------------------ text_parts
\* aleph.text.string_value: the text of a value, None when there is none.
string_value(v) == IF v = "" THEN None ELSE Some(v)

\* DocumentPage.text_parts(): the page's text, unless string_value has none.
page_text_parts(page) ==
    IF string_value(page.text) # None THEN <<page.text>> ELSE <<>>

\* DocumentRecord.text_parts(): the values of data that string_value has a
\* text for (the payloads here have one key).
record_text_parts(record) ==
    IF string_value(record.data.name) # None THEN <<record.data.name>> ELSE <<>>

\* The positions in a table of the rows a relationship (Document.pages,
\* Document.records) loads: the rows with the object's id; an object that was
\* never stored has empty collections.
Loaded(rows, o) ==
    IF obj[o].state # "transient"
    THEN {i \in 1..Len(rows) : rows[i].document_id = obj[o].id}
    ELSE {}

\* The orders a SELECT without ORDER BY may return the rows at positions S in:
\* neither backref declares an order_by.
LoadOrders(S) ==
    {f \in [1..Cardinality(S) -> S] : \A i \in S : \E k \in DOMAIN f : f[k] = i}

\* No generator has been made.
NoGen == [o |-> 0, at |-> "none", loaded |-> <<>>, pos |-> 0, out |-> <<>>]

\* Document.text_parts() is called: a generator is made and none of the body
\* runs. (One generator is followed: a new call takes the place of the last.)
text_parts(o) ==
    /\ pc = Idle
    /\ gen' = [o |-> o, at |-> "created", loaded |-> <<>>, pos |-> 0, out |-> <<>>]
    /\ last' = Called("text_parts", o, FALSE, None, NoRows)
    /\ UNCHANGED <<obj, documents, pages, records, refs, seqs, pc, batches, tids>>

\* What the inner loop yields for one loaded row of a document of type ty.
row_text_parts(ty, row) ==
    IF ty = TYPE_TEXT THEN page_text_parts(row) ELSE record_text_parts(row)

\* The generator runs from after row pos of the loaded rows to its next yield:
\* the rows the inner loop yields nothing for are passed over; at the end of
\* the rows the generator is exhausted.
gen_resume(g, ty, loaded) ==
    LET next == {k \in (g.pos + 1)..Len(loaded) : row_text_parts(ty, loaded[k]) # <<>>}
    IN IF next = {}
       THEN [g EXCEPT !.at = "done", !.loaded = loaded, !.pos = Len(loaded)]
       ELSE LET k == CHOOSE k \in next : \A j \in next : k <= j
            IN [g EXCEPT !.at = "suspended", !.loaded = loaded, !.pos = k,
                         !.out = Append(@, row_text_parts(ty, loaded[k])[1])]

\* next() on the generator. The first one starts the body: the type is tested
\* and the collection is loaded, once, in the order the database returns it;
\* later ones go on in the rows loaded then, whatever was stored or deleted
\* since.
text_parts_next ==
    /\ pc = Idle
    /\ gen.at \in {"created", "suspended"}
    /\ LET ty == obj[gen.o].type
       IN IF gen.at = "suspended"
          THEN gen' = gen_resume(gen, ty, gen.loaded)
          ELSE IF ty = TYPE_TEXT
          THEN \E order \in LoadOrders(Loaded(pages, gen.o)) :
                  gen' = gen_resume(gen, ty, [k \in DOMAIN order |-> pages[order[k]]])
          ELSE IF ty = TYPE_TABULAR
          THEN \E order \in LoadOrders(Loaded(records, gen.o)) :
                  gen' = gen_resume(gen, ty, [k \in DOMAIN order |-> records[order[k]]])
          ELSE gen' = [gen EXCEPT !.at = "done"]
    /\ last' = Called("next", gen.o, FALSE, None, NoRows)
    /\ UNCHANGED <<obj, documents, pages, records, refs, seqs, pc, batches, tids>>

\* ------------------------------------------------------------------ meta
\* A JSON object is a function from its keys to their values; the column _meta
\* holds None or <<object>>.
EmptyDict == [k \in {} |-> None]

DictSet(d, key, value) ==
    [k \in DOMAIN d \cup {key} |-> IF k = key THEN value ELSE d[k]]

DictGet(d, key) == IF key \in DOMAIN d THEN d[key] ELSE None

\* aleph.metadata.Metadata: the attributes of a document.
\* Metadata.update(data, safe): every descriptive attribute data has is taken
\* from it; content_hash and foreign_id are taken only when safe is off.
Metadata_update(m, data, safe) ==
    [content_hash |-> IF ~safe /\ "content_hash" \in DOMAIN data
                      THEN data.content_hash ELSE m.content_hash,
     foreign_id |-> IF ~safe /\ "foreign_id" \in DOMAIN data
                    THEN data.foreign_id ELSE m.foreign_id,
     title |-> IF "title" \in DOMAIN data THEN data.title ELSE m.title]

\* Metadata.from_data(data): a new Metadata holding what data holds.
Metadata_from_data(data) ==
    Metadata_update([content_hash |-> None, foreign_id |-> None, title |-> None],
                    data, FALSE)

\* Metadata.to_attr_dict(): the attributes that are set, as a JSON object.
Metadata_to_attr_dict(m) ==
    [k \in {a \in DOMAIN m : m[a] # None} |-> m[k]]

\* aleph.data.validate.validate(data, schema): raises a validation error
\* unless every value of data is a string or null, as document.json asks.
BadValue == <<"not", "a", "string">>
validate_raises(data) == \E k \in DOMAIN data : data[k] = BadValue

\* Faulty variant: the getter does not write the columns into _meta.
meta_dict_not_refreshed(d) ==
    IF d.meta = None \/ DOMAIN d.meta[1] = {} THEN EmptyDict ELSE d.meta[1]

\* The body of the meta getter up to its return: the dictionary left in _meta.
meta_dict(d) ==
    LET m0 == IF d.meta = None \/ DOMAIN d.meta[1] = {} THEN EmptyDict ELSE d.meta[1]
        m1 == DictSet(m0, "content_hash", d.content_hash)
    IN DictSet(m1, "foreign_id", d.foreign_id)

\* What reading Document.meta returns.
meta_value(d) == Metadata_from_data(meta_dict(d))

\* Reading Document.meta: the getter also stores the dictionary in _meta.
meta_getter(o) ==
    /\ pc = Idle
    /\ obj' = [obj EXCEPT ![o].meta = Some(meta_dict(obj[o]))]
    /\ last' = Called("meta_getter", o, FALSE, None, NoRows)
    /\ UNCHANGED <<documents, pages, records, refs, seqs, pc, batches, gen, tids>>

\* The meta setter applied to document d: meta is [kind, v], a Metadata object
\* or anything else (a plain dict).
meta_assigned(d, meta) ==
    IF meta.kind = "Metadata"
    THEN [d EXCEPT !.content_hash = meta.v.content_hash,
                   !.foreign_id = meta.v.foreign_id,
                   !.meta = Some(Metadata_to_attr_dict(meta.v))]
    ELSE [d EXCEPT !.meta = Some(meta.v)]

meta_setter(o, meta) ==
    /\ pc = Idle
    /\ obj' = [obj EXCEPT ![o] = meta_assigned(obj[o], meta)]
    /\ last' = Called("meta_setter", o, FALSE, Some(meta.kind), NoRows)
    /\ UNCHANGED <<documents, pages, records, refs, seqs, pc, batches, gen, tids>>

\* db.session.add(self): an object outside the session becomes pending.
session_add(d) ==
    IF d.state = "transient" THEN [d EXCEPT !.state = "pending"] ELSE d

\* Faulty variant: the data is validated after the document was changed.
update_validate_last(o, data) ==
    /\ pc = Idle
    /\ LET got == [obj[o] EXCEPT !.meta = Some(meta_dict(obj[o]))]
           meta == Metadata_update(meta_value(obj[o]), data, TRUE)
       IN obj' = [obj EXCEPT ![o] =
                     session_add(meta_assigned(got, [kind |-> "Metadata", v |-> meta]))]
    /\ last' = Called("update", o, validate_raises(data), None, NoRows)
    /\ UNCHANGED <<documents, pages, records, refs, seqs, pc, batches, gen, tids>>

update(o, data) ==
    /\ pc = Idle
    /\ IF validate_raises(data)
       THEN /\ obj' = obj
            /\ last' = Called("update", o, TRUE, None, NoRows)
       ELSE /\ LET got == [obj[o] EXCEPT !.meta = Some(meta_dict(obj[o]))]
                   meta == Metadata_update(meta_value(obj[o]), data, TRUE)
               IN obj' = [obj EXCEPT ![o] =
                             session_add(meta_assigned(got, [kind |-> "Metadata", v |-> meta]))]
            /\ last' = Called("update", o, FALSE, None, NoRows)
    /\ UNCHANGED <<documents, pages, records, refs, seqs, pc, batches, gen, tids>>

\* ------------------------------------------------------------------ tid
\* str(n) of a non-negative integer: its decimal digits, as a sequence of
\* characters.
DigitChars == <<"0", "1", "2", "3", "4", "5", "6", "7", "8", "9">>

RECURSIVE str(_)
str(n) ==
    IF n < 10
    THEN <<DigitChars[n + 1]>>
    ELSE str(n \div 10) \o <<DigitChars[(n % 10) + 1]>>

\* The bytes DocumentRecord.tid feeds to sha1: str(document_id), then
\* str(sheet), then str(row_id).
tid_input(document_id, sheet, row_id) ==
    str(document_id) \o str(sheet) \o str(row_id)

\* tid is read on a record with the given columns.
tid(document_id, sheet, row_id) ==
    /\ pc = Idle
    /\ tids' = <<[document_id |-> document_id, sheet |-> sheet, row_id |-> row_id,
                  input |-> tid_input(document_id, sheet, row_id)]>>
    /\ last' = Called("tid", 0, FALSE, None, NoRows)
    /\ UNCHANGED <<obj, documents, pages, records, refs, seqs, pc, batches, gen>>

\* ------------------------------------------------------------------ the store
\* Document objects after construction: stored ones (object o is the row with
\* id o) and ones not yet added to any session (id None).
NewDocument(o, state, type, hash) ==
    [id |-> IF state = "persistent" THEN Some(o) ELSE None,
     state |-> state, type |-> type,
     content_hash |-> Some(hash), foreign_id |-> None, meta |-> None]

InitTables ==
    /\ documents = {obj[o].id[1] : o \in {x \in Objs : obj[x].state = "persistent"}}
    /\ pages = <<>>
    /\ records = <<>>
    /\ refs = <<>>
    /\ seqs = [page |-> 0, record |-> 0, reference |-> 0]
    /\ pc = Idle
    /\ last = Called("init", 0, FALSE, None, NoRows)
    /\ batches = <<>>
    /\ gen = NoGen
    /\ tids = <<>>

Init ==
    /\ obj \in {[o \in Objs |-> NewDocument(o, st[o], TYPE_TABULAR, "h1")] :
                    st \in [Objs -> {"transient", "persistent"}]}
    /\ InitTables

\* Calls in any order: pages and references are added to stored documents,
\* rows are inserted with the default chunk size, and the delete helpers and
\* delete() run on any live object.
Next ==
    \/ \E o \in Objs : seqs.page < MaxPages /\ AddPage(o, seqs.page + 1, "a")
    \/ \E o \in Objs, origin \in Origins : AddReference(o, origin)
    \/ \E o \in Objs, iterable \in {<<>>, <<DataA>>} :
            /\ seqs.record + Len(iterable) <= MaxRecords
            /\ insert_records(o, 0, iterable, DefaultChunkSize)
    \/ \E o \in Objs : delete_pages(o)
    \/ \E o \in Objs : delete_records(o)
    \/ \E o \in Objs, origin \in {None} \cup {Some(x) : x \in Origins} :
            delete_references(o, origin)
    \/ \E o \in Objs : delete(o)
    \/ delete_statement

Spec == Init /\ [][Next]_vars

\* ------------------------------------------------------------------ bulk insertion
\* The iterables handed to insert_records: n items, alternating payloads.
Item(k) == IF k % 2 = 1 THEN DataA ELSE DataB
Iterables == {[k \in 1..n |-> Item(k)] : n \in 0..MaxItems}

\* insert_records with any sheet, iterable and chunk size >= 1, on any live
\* object and repeatedly; delete_records in between.
NextInsert ==
    \/ \E o \in Objs, sheet \in 0..MaxSheet, iterable \in Iterables,
           chunk_size \in 1..MaxChunk :
            /\ seqs.record + Len(iterable) <= MaxInserted
            /\ insert_records(o, sheet, iterable, chunk_size)
    \/ \E o \in Objs : delete_records(o)

SpecInsert == Init /\ [][NextInsert]_vars

\* ------------------------------------------------------------------ extracted text
Texts == {"", "a", "b"}

\* Documents of every type, stored or not.
InitText ==
    /\ obj \in {[o \in Objs |-> NewDocument(o, st[o], ty[o], "h1")] :
                    st \in [Objs -> {"transient", "persistent"}], ty \in [Objs -> Types]}
    /\ InitTables

\* Pages arrive with any number and text, in any order; rows are inserted;
\* a text_parts generator is made and advanced, and pages are deleted, while
\* it is suspended too.
NextText ==
    \/ \E o \in Objs, number \in 1..MaxNumber, text \in Texts :
            seqs.page < MaxTextPages /\ AddPage(o, number, text)
    \/ \E o \in Objs :
            /\ seqs.record + 2 <= MaxTextRecords
            /\ insert_records(o, 0, <<DataA, DataBlank>>, DefaultChunkSize)
    \/ \E o \in Objs : text_parts(o)
    \/ text_parts_next
    \/ \E o \in Objs : delete_pages(o)

SpecText == InitText /\ [][NextText]_vars

\* ------------------------------------------------------------------ metadata
ForeignIds == {None, Some("f1")}
Titles == {None, Some("t1")}

MetadataObjects ==
    [content_hash : {Some(h) : h \in Hashes}, foreign_id : ForeignIds, title : Titles]

PlainDicts ==
    {EmptyDict,
     [title |-> Some("t1")],
     [content_hash |-> Some("h9"), foreign_id |-> Some("f9")]}

UpdateData ==
    {[title |-> Some("t2")],
     [title |-> Some("t1"), content_hash |-> Some("h9")],
     [title |-> BadValue],
     [title |-> Some("t2"), foreign_id |-> BadValue]}

\* The documents' attributes do not depend on one another: the calls are
\* made on the first object, which is stored or not.
MetaObjs == {1}

\* meta is assigned (a Metadata or a plain dict), read, and updated.
NextMeta ==
    \/ \E o \in MetaObjs, m \in MetadataObjects :
            meta_setter(o, [kind |-> "Metadata", v |-> m])
    \/ \E o \in MetaObjs, d \in PlainDicts :
            meta_setter(o, [kind |-> "dict", v |-> d])
    \/ \E o \in MetaObjs : meta_getter(o)
    \/ \E o \in MetaObjs, data \in UpdateData : update(o, data)

SpecMeta == Init /\ [][NextMeta]_vars

\* ------------------------------------------------------------------ record identifiers
TidNumbers == 0..MaxTid

\* tid is read on records of any document, sheet and row.
NextTid ==
    \E document_id \in TidNumbers, sheet \in TidNumbers, row_id \in TidNumbers :
        tid(document_id, sheet, row_id)

InitTid ==
    /\ obj = [o \in Objs |-> NewDocument(o, "persistent", TYPE_TABULAR, "h1")]
    /\ InitTables

SpecTid == InitTid /\ [][NextTid]_vars

\* ------------------------------------------------------------------ properties of the store
RowsOf(rows, id) == {r \in Range(rows) : r.document_id = id}

DeleteReturned ==
    last.op = "delete" /\ pc = Idle /\ ~last.raised

\* C1: once delete() has returned for a document, no page and no record with
\* that document's id is left in the store.
C1_DeleteLeavesNoChildren ==
    DeleteReturned =>
        /\ RowsOf(pages, obj[last.o].id) = {}
        /\ RowsOf(records, obj[last.o].id) = {}

\* delete() returned for a document that owned pages and records, while a
\* reference of another document is still stored.
C1_Witness ==
    /\ DeleteReturned
    /\ obj[last.o].state = "deleted"
    /\ last.removed.pages > 0
    /\ last.removed.records > 0
    /\ refs # <<>>

\* delete() returned for a document that owned no page and no record.
C1_WitnessZero ==
    /\ DeleteReturned
    /\ obj[last.o].state = "deleted"
    /\ last.removed = NoRows

\* C2: every stored page and record has a document_id that is set and is the
\* id of a row of the document table.
C2_ChildrenReferenceADocument ==
    \A r \in Range(pages) \cup Range(records) :
        /\ r.document_id # None
        /\ r.document_id[1] \in documents

\* C3: delete() removes the references, then the records, then the pages, and
\* only then the document: once a statement of delete() has run, what the
\* statements run so far remove is gone and the document row is still there,
\* and when delete() returns with the document gone, no page, record or
\* reference of it is left.
C3_DeleteOrder ==
    /\ (pc # Idle /\ pc.at >= 2) =>
          LET id == obj[pc.o].id
          IN /\ obj[pc.o].state = "persistent"
             /\ id[1] \in documents
             /\ RowsOf(refs, id) = {}
             /\ pc.at >= 3 => RowsOf(records, id) = {}
             /\ pc.at >= 4 => RowsOf(pages, id) = {}
    /\ DeleteReturned =>
          /\ obj[last.o].state = "deleted"
          /\ obj[last.o].id[1] \notin documents
          /\ RowsOf(refs, obj[last.o].id) = {}
          /\ RowsOf(records, obj[last.o].id) = {}
          /\ RowsOf(pages, obj[last.o].id) = {}

\* delete() stands before its last statement, having removed references,
\* records and pages of the document.
C3_Witness ==
    /\ pc # Idle
    /\ pc.at = 4
    /\ last.removed.refs > 0
    /\ last.removed.records > 0
    /\ last.removed.pages > 0

\* C8: a delete helper removes exactly the rows of its own document (for
\* delete_references: of the given origin, when one is given) and changes
\* nothing else: no other row of its table, no other table, no document.
C8_DeleteHelpersFrame ==
    [][LET id == obj[last'.o].id
       IN /\ last'.op = "delete_pages" =>
                /\ Range(pages') = {r \in Range(pages) : r.document_id # id}
                /\ Len(pages') = Cardinality(Range(pages'))
                /\ UNCHANGED <<records, refs, documents, obj>>
          /\ last'.op = "delete_records" =>
                /\ Range(records') = {r \in Range(records) : r.document_id # id}
                /\ Len(records') = Cardinality(Range(records'))
                /\ UNCHANGED <<pages, refs, documents, obj>>
          /\ last'.op = "delete_references" =>
                /\ Range(refs') =
                       Range(refs) \ {r \in Range(refs) :
                                         /\ r.document_id = id
                                         /\ last'.arg \in {None, Some(r.origin)}}
                /\ Len(refs') = Cardinality(Range(refs'))
                /\ UNCHANGED <<pages, records, documents, obj>>]_vars

\* delete_references(origin) removed a reference and left one of the same
\* document with another origin, and a page of another document is stored.
C8_Witness ==
    /\ last.op = "delete_references"
    /\ last.arg # None
    /\ last.removed.refs > 0
    /\ \E r \in Range(refs) : r.document_id = obj[last.o].id /\ Some(r.origin) # last.arg
    /\ \E r \in Range(pages) : r.document_id # obj[last.o].id

\* ------------------------------------------------------------------ properties of insert_records
RECURSIVE Flatten(_)
Flatten(ss) == IF ss = <<>> THEN <<>> ELSE Head(ss) \o Flatten(Tail(ss))

\* C4: no two stored records of one document have the same sheet and row_id.
C4_SheetRowIdentifiesRecord ==
    \A i, j \in 1..Len(records) :
        (/\ i # j
         /\ records[i].document_id = records[j].document_id
         /\ records[i].sheet = records[j].sheet)
        => records[i].row_id # records[j].row_id

\* C7: insert_records with n items and chunk_size >= 1 appends exactly n rows,
\* the j-th with the object's id, the sheet, row_id j - 1 and the j-th item,
\* under fresh distinct ids; the lists handed to bulk_insert_mappings are
\* non-empty, hold at most chunk_size mappings each and, laid end to end, are
\* exactly the n mappings in order.
C7_InsertRecords ==
    [][last'.op = "insert_records" =>
        LET a == last'.arg
            n == Len(a.iterable)
            id == obj[last'.o].id
        IN /\ Len(records') = Len(records) + n
           /\ SubSeq(records', 1, Len(records)) = records
           /\ \A j \in 1..n :
                 LET r == records'[Len(records) + j]
                 IN /\ r.document_id = id
                    /\ r.sheet = a.sheet
                    /\ r.row_id = j - 1
                    /\ r.data = a.iterable[j]
                    /\ \A k \in 1..Len(records') :
                          k # Len(records) + j => records'[k].id # r.id
           /\ \A b \in 1..Len(batches') :
                 Len(batches'[b]) \in 1..a.chunk_size
           /\ Flatten(batches') =
                 [j \in 1..n |-> [document_id |-> id, row_id |-> j - 1,
                                  sheet |-> a.sheet, data |-> a.iterable[j]]]]_vars

\* An insert_records call of three items in chunks of two: a full list and a
\* list of the one item left.
C7_Witness ==
    /\ last.op = "insert_records"
    /\ Len(last.arg.iterable) = 3
    /\ last.arg.chunk_size = 2
    /\ Len(batches) = 2
    /\ Len(batches[2]) = 1
    /\ Len(records) = 3

\* An insert_records call of no item: no list is handed over.
C7_WitnessEmpty ==
    /\ last.op = "insert_records"
    /\ last.arg.iterable = <<>>
    /\ batches = <<>>

\* ------------------------------------------------------------------ properties of text_parts
\* C5: text_parts() of a text document yields the texts of its pages in
\* ascending order of page number: of two texts yielded, the later one is not
\* of a page with a smaller number.
C5_TextPartsByPageNumber ==
    (gen.at # "none" /\ obj[gen.o].type = TYPE_TEXT) =>
        \A j, k \in 1..gen.pos :
            (/\ j < k
             /\ page_text_parts(gen.loaded[j]) # <<>>
             /\ page_text_parts(gen.loaded[k]) # <<>>)
            => gen.loaded[j].number <= gen.loaded[k].number

\* ------------------------------------------------------------------ properties of meta and update
\* C6: an update() whose data the validation rejects raises, and leaves the
\* document as it was: _meta, content_hash, foreign_id and its place in or
\* out of the session.
C6_RejectedUpdateChangesNothing ==
    [][(last'.op = "update" /\ last'.raised) => obj' = obj]_vars

\* A rejected update() on a document that is outside the session and whose
\* meta was assigned before.
C6_Witness ==
    /\ last.op = "update"
    /\ last.raised
    /\ obj[last.o].state = "transient"
    /\ obj[last.o].meta # None

ColumnsRead(d) ==
    /\ meta_value(d).content_hash = d.content_hash
    /\ meta_value(d).foreign_id = d.foreign_id

\* C9: the value read from meta always carries the content_hash and
\* foreign_id columns; assigning a Metadata sets both columns to its values,
\* assigning a plain dict leaves both columns as they were, and a read puts
\* the column values in place of the dictionary's own entries.
C9_MetaCarriesColumns ==
    /\ [](\A o \in Objs : ColumnsRead(obj[o]))
    /\ [][last'.op = "meta_getter" =>
            /\ obj'[last'.o].meta[1].content_hash = obj[last'.o].content_hash
            /\ obj'[last'.o].meta[1].foreign_id = obj[last'.o].foreign_id
            /\ obj'[last'.o].content_hash = obj[last'.o].content_hash
            /\ obj'[last'.o].foreign_id = obj[last'.o].foreign_id]_vars
    /\ [][last'.op = "meta_setter" =>
            LET d == obj'[last'.o]
            IN IF last'.arg = Some("Metadata")
               THEN /\ d.content_hash = DictGet(d.meta[1], "content_hash")
                    /\ d.foreign_id = DictGet(d.meta[1], "foreign_id")
               ELSE /\ d.content_hash = obj[last'.o].content_hash
                    /\ d.foreign_id = obj[last'.o].foreign_id]_vars

\* A plain dict with its own content_hash and foreign_id was assigned to a
\* document whose columns hold other values.
C9_Witness ==
    /\ last.op = "meta_setter"
    /\ last.arg = Some("dict")
    /\ "content_hash" \in DOMAIN obj[last.o].meta[1]
    /\ obj[last.o].meta[1].content_hash # obj[last.o].content_hash
    /\ obj[last.o].meta[1].foreign_id # obj[last.o].foreign_id
    /\ obj[last.o].content_hash = Some("h2")

\* ------------------------------------------------------------------ properties of tid
\* C10: a record's tid input is shared by no record with another
\* (document_id, sheet, row_id).
C10_TidInputIdentifiesRecord ==
    \A e \in Range(tids) :
        \A d \in TidNumbers, s \in TidNumbers, r \in TidNumbers :
            <<d, s, r>> # <<e.document_id, e.sheet, e.row_id>>
                => tid_input(d, s, r) # e.input

====
